---- MODULE Spec2Model ----
(***************************************************************************)
(* Exercise tracker (src/index.js): an express application over two        *)
(* mongoose collections, Users and Exercises.  Every route handler is an   *)
(* async function; it runs atomically between two awaits, and each await   *)
(* is one call to the store.  One action of this module is one store call  *)
(* together with the handler code that follows it up to the next await or  *)
(* to the response.                                                        *)
(***************************************************************************)
EXTENDS Integers, Sequences, FiniteSets, TLC

\* Bounds of the model.
MaxReq == 2        \* handlers that may be in flight at the same time
MaxUid == 2        \* User documents ever constructed
MaxEid == 2        \* Exercise documents ever constructed
TicksPerDay == 2   \* clock resolution: instants per calendar day

Reqs == 1..MaxReq
\* The instants the clock can show: the two calendar days of DateStrings.
Ticks == 0..(2 * TicksPerDay - 1)

\* Values of JavaScript that are not ordinary numbers or documents.
NaN == -1                          \* parseInt of a non-numeral; the time value of an Invalid Date
BadId == 0                         \* a path parameter that is no ObjectId (findById cannot cast it)
NoUser == [_id |-> 0, username |-> ""]      \* null, the result of a lookup that found nothing

\* ------------------------------------------------------------------------
\* Request inputs, as the strings express hands to the handlers.
\* "undefined" stands for a field that is absent from the body or the query.

Usernames == {"", "alice", "bob"}      \* "": an empty or absent username
PathIds == {BadId} \cup (1..MaxUid)
DateStrings == {"undefined", "", "garbage", "2024-01-01", "2024-01-02"}
LimitStrings == {"undefined", "0", "1", "1.9", "2"}
DurationStrings == {"undefined", "30", "abc"}
DescriptionStrings == {"undefined", "run"}

\* JavaScript truthiness of a request string: undefined and "" are falsy.
Truthy(s) == s \notin {"undefined", ""}

\* parseInt: the leading integer of the string, NaN when there is none.
parseInt(s) ==
  CASE s = "0" -> 0
    [] s = "1" -> 1
    [] s = "1.9" -> 1
    [] s = "2" -> 2
    [] s = "30" -> 30
    [] OTHER -> NaN

\* new Date(string): midnight of the day named, an Invalid Date otherwise.
NewDate(s) ==
  CASE s = "2024-01-01" -> 0
    [] s = "2024-01-02" -> TicksPerDay
    [] OTHER -> NaN

\* Date.prototype.toDateString: the calendar day, without the time of day.
toDateString(t) == t \div TicksPerDay

\* ------------------------------------------------------------------------
\* State.

VARIABLES
  Users,       \* the User collection: documents [_id, username]
  Exercises,   \* the Exercise collection: documents [_id, userId, description, duration, date]
  nextUid,     \* the next fresh _id of a User document
  nextEid,     \* the next fresh _id of an Exercise document
  pc,          \* pc[r]: the await handler r is suspended at, "idle" when it serves no request
  req,         \* req[r]: the request handler r serves
  user,        \* user[r]: the handler's local variable `user` (the result of findById)
  alone,       \* alone[r]: no other handler has been in flight since r received its request
  pred,        \* pred[r]: the exchange completed just before r's request arrived (see Receive)
  last         \* the exchange (request, responses) just completed, until the next request arrives

vars == <<Users, Exercises, nextUid, nextEid, pc, req, user, alone, pred, last>>

NoReq == [op |-> "none"]
NoPred == [op |-> "none", username |-> "", id |-> 0, alone |-> FALSE, error |-> "none",
           status |-> 0, ret |-> 0, made |-> 0]
NoLast == [req |-> NoReq, resps |-> <<>>, error |-> "none", alone |-> FALSE,
           pred |-> NoPred, made |-> 0]

\* ------------------------------------------------------------------------
\* The store (mongoose over MongoDB).

\* Mutant of findOne: the lookup never finds the User.
findOneMisses(username) == {NoUser}

\* User.findOne({ username }): the documents a lookup by username may return,
\* null when none matches.
findOne(username) ==
  IF \E u \in Users : u.username = username
    THEN {u \in Users : u.username = username}
    ELSE {NoUser}

\* User.findById(id) for an id that casts to an ObjectId.
findById(id) ==
  IF \E u \in Users : u._id = id
    THEN CHOOSE u \in Users : u._id = id
    ELSE NoUser

\* findById throws a CastError for a path parameter that is no ObjectId.
CastsToObjectId(id) == id # BadId

\* userSchema: username is required (an empty or absent string fails validation).
UserValid(username) == username # ""

\* Mutant of DuplicateKey: the schema declares no unique index.
NoUniqueIndex(username) == FALSE

\* userSchema: username is unique: the unique index rejects an insert whose
\* username is already in the collection (duplicate key error).
DuplicateKey(username) == \E u \in Users : u.username = username

\* exerciseSchema: description is required, duration is a required Number and
\* date a Date; NaN and an Invalid Date fail the cast.
ExerciseValid(e) ==
  /\ e.description \notin {"undefined", ""}
  /\ e.duration # NaN
  /\ e.date # NaN

\* Mutant of Matches: $gt in place of $gte.
MatchesAfterFrom(e, id, from, to) ==
  /\ e.userId = id
  /\ (Truthy(from) => e.date > NewDate(from))
  /\ (Truthy(to) => e.date <= NewDate(to))

\* Exercise.find(filter): filter.userId is the path parameter; filter.date.$gte
\* and filter.date.$lte are set only for a truthy from and a truthy to.
Matches(e, id, from, to) ==
  /\ e.userId = id
  /\ (Truthy(from) => e.date >= NewDate(from))
  /\ (Truthy(to) => e.date <= NewDate(to))

Find(id, from, to) == {e \in Exercises : Matches(e, id, from, to)}

\* The query casts filter.date: an Invalid Date bound is a CastError.
FilterCasts(from, to) ==
  /\ (Truthy(from) => NewDate(from) # NaN)
  /\ (Truthy(to) => NewDate(to) # NaN)

\* .sort({ date: 1 }): the orders the store may return the set S in, ascending
\* by date (the order of documents of equal date is the store's choice).
SortByDate(S) ==
  {s \in [1..Cardinality(S) -> S] :
     /\ \A i, j \in 1..Cardinality(S) : i # j => s[i] # s[j]
     /\ \A i, j \in 1..Cardinality(S) : i < j => s[i].date <= s[j].date}

\* .limit(n): the query's sort is applied by the store before its limit,
\* whatever the order of the calls that built the query; a limit of 0 is no
\* limit.
CursorLimit(s, n) ==
  IF n = 0 \/ n >= Len(s) THEN s ELSE SubSeq(s, 1, n)

\* Mutant of Limit: .limit(parseInt(limit) || 1), one entry when no limit is given.
LimitDefaultsToOne(s, limit) ==
  CursorLimit(s, IF Truthy(limit) /\ parseInt(limit) > 0 THEN parseInt(limit) ELSE 1)

\* .limit(limit ? parseInt(limit) : undefined)
Limit(s, limit) ==
  IF Truthy(limit) THEN CursorLimit(s, parseInt(limit)) ELSE s

\* exercises.map(...): the log entries of the response.
LogEntry(e) ==
  [_id |-> e._id, description |-> e.description, duration |-> e.duration,
   date |-> toDateString(e.date)]

LogOf(s) == [i \in 1..Len(s) |-> LogEntry(s[i])]

\* Mutant of LogBody: count is the number of the user's entries in the store.
LogBodyCountsAll(u, log) ==
  [_id |-> u._id, username |-> u.username,
   count |-> Cardinality({e \in Exercises : e.userId = u._id}), log |-> log]

\* The body of the log response.
LogBody(u, log) ==
  [_id |-> u._id, username |-> u.username, count |-> Len(log), log |-> log]

\* ------------------------------------------------------------------------
\* Requests.

RegisterReqs == [op : {"register"}, username : Usernames]
ListReqs == [op : {"list"}]
AddReqs == [op : {"add"}, id : PathIds, description : DescriptionStrings,
            duration : DurationStrings, date : DateStrings]
LogReqs == [op : {"logs"}, id : PathIds, from : DateStrings, to : DateStrings,
            limit : LimitStrings]
DeleteReqs == [op : {"deleteUsers", "deleteExercises"}]

\* The first await of each handler.
Entry(op) ==
  CASE op = "register" -> "users_findOne"
    [] op = "list" -> "users_find"
    [] op = "add" -> "add_findById"
    [] op = "logs" -> "logs_findById"
    [] op = "deleteUsers" -> "users_deleteMany"
    [] op = "deleteExercises" -> "exercises_deleteMany"

InFlight(r) == pc[r] # "idle"
Others(r) == Reqs \ {r}

\* Documents constructed by the handlers in flight; every construction takes
\* a fresh _id.
Pending(op) == Cardinality({r \in Reqs : InFlight(r) /\ req[r].op = op})

\* What a request remembers of the exchange x completed just before it: its
\* operation and key, whether it ran alone, how it ended, the _id it returned
\* (register) and the _id of the document it made.
PredOf(x) ==
  [op |-> x.req.op,
   username |-> IF x.req.op = "register" THEN x.req.username ELSE "",
   id |-> IF x.req.op = "add" THEN x.req.id ELSE 0,
   alone |-> x.alone,
   error |-> x.error,
   status |-> x.resps[1].status,
   ret |-> IF x.req.op = "register" /\ x.resps[1].status = 200
             THEN x.resps[1].body._id ELSE 0,
   made |-> x.made]

\* A request follows the exchange x when it arrives while no handler is in
\* flight and repeats x's call (a second register of the same username) or
\* reads what x wrote (the log of the user x added an exercise to).
Follows(r, rq, x) ==
  /\ \A o \in Others(r) : ~InFlight(o)
  /\ \/ rq.op = "register" /\ x.req.op = "register" /\ x.req.username = rq.username
     \/ rq.op = "logs" /\ x.req.op = "add" /\ x.req.id = rq.id

\* express dispatches a request to its handler, which runs up to its first await.
Receive(r, rq) ==
  /\ pc[r] = "idle"
  /\ last = NoLast \/ Follows(r, rq, last)
  /\ (rq.op = "register" => nextUid + Pending("register") <= MaxUid)
  /\ (rq.op = "add" => nextEid + Pending("add") <= MaxEid)
  /\ pc' = [pc EXCEPT ![r] = Entry(rq.op)]
  /\ req' = [req EXCEPT ![r] = rq]
  /\ alone' = [s \in Reqs |-> IF s = r THEN \A o \in Others(r) : ~InFlight(o) ELSE FALSE]
  /\ pred' = [pred EXCEPT ![r] = IF Follows(r, rq, last) THEN PredOf(last) ELSE NoPred]
  /\ last' = NoLast
  /\ UNCHANGED <<Users, Exercises, nextUid, nextEid, user>>

\* The handler of r has sent `resps` and returned.
Complete(r, resps, error, made) ==
  /\ pc' = [pc EXCEPT ![r] = "idle"]
  /\ last' = [req |-> req[r], resps |-> resps, error |-> error, alone |-> alone[r],
              pred |-> pred[r], made |-> made]
  /\ req' = [req EXCEPT ![r] = NoReq]
  /\ user' = [user EXCEPT ![r] = NoUser]
  /\ alone' = [alone EXCEPT ![r] = FALSE]
  /\ pred' = [pred EXCEPT ![r] = NoPred]

\* res.json(body) and res.status(code).json(body)
Json(status, body) == [status |-> status, body |-> body]
ServerError(msg) == <<Json(500, [error |-> msg])>>
NotFound == <<Json(404, [error |-> "User not found"])>>

\* ------------------------------------------------------------------------
\* POST /api/users.  A store call may throw because the connection is lost
\* or the write fails (`fault`; the error is "thrown"), or because mongoose or
\* the store rejects its argument (a CastError, a ValidationError, a duplicate
\* key; the error is "rejected").  A write that throws on a fault may or may
\* not have reached the collection.

\* await User.findOne({ username }); if (existingUser) return res.json(existingUser)
UsersFindOne(r) ==
  /\ pc[r] = "users_findOne"
  /\ \E fault \in BOOLEAN :
       IF fault
         THEN /\ Complete(r, ServerError("Server error creating user"), "thrown", 0)
              /\ UNCHANGED <<Users, Exercises, nextUid, nextEid>>
         ELSE \E existingUser \in findOne(req[r].username) :
                IF existingUser # NoUser
                  THEN /\ Complete(r, <<Json(200, existingUser)>>, "none", 0)
                       /\ UNCHANGED <<Users, Exercises, nextUid, nextEid>>
                  ELSE /\ pc' = [pc EXCEPT ![r] = "users_save"]
                       /\ UNCHANGED <<Users, Exercises, nextUid, nextEid, req, user,
                                      alone, pred, last>>

\* const newUser = new User({ username }); await newUser.save(); res.json({ username, _id })
UsersSave(r) ==
  /\ pc[r] = "users_save"
  /\ nextUid' = nextUid + 1
  /\ UNCHANGED <<Exercises, nextEid>>
  /\ \E fault \in BOOLEAN :
       LET newUser == [_id |-> nextUid, username |-> req[r].username]
       IN IF ~UserValid(newUser.username)
            THEN /\ ~fault
                 /\ Users' = Users
                 /\ Complete(r, ServerError("Server error creating user"), "rejected", 0)
            ELSE IF fault
              THEN /\ Users' \in IF DuplicateKey(newUser.username)
                                   THEN {Users} ELSE {Users, Users \cup {newUser}}
                   /\ Complete(r, ServerError("Server error creating user"), "thrown", 0)
              ELSE IF DuplicateKey(newUser.username)
                THEN /\ Users' = Users
                     /\ Complete(r, ServerError("Server error creating user"), "rejected", 0)
                ELSE /\ Users' = Users \cup {newUser}
                     /\ Complete(r, <<Json(200, [username |-> newUser.username,
                                                 _id |-> newUser._id])>>,
                                 "none", newUser._id)

\* GET /api/users: await User.find({}, '_id username'); res.json(users)
UsersFind(r) ==
  /\ pc[r] = "users_find"
  /\ UNCHANGED <<Users, Exercises, nextUid, nextEid>>
  /\ \E fault \in BOOLEAN :
       IF fault
         THEN Complete(r, ServerError("Server error retrieving users"), "thrown", 0)
         ELSE Complete(r, <<Json(200, Users)>>, "none", 0)

\* ------------------------------------------------------------------------
\* POST /api/users/:_id/exercises

\* await User.findById(userId); if (!user) return res.status(404)...
AddFindById(r) ==
  /\ pc[r] = "add_findById"
  /\ UNCHANGED <<Users, Exercises, nextUid, nextEid>>
  /\ \E fault \in BOOLEAN :
       IF fault \/ ~CastsToObjectId(req[r].id)
         THEN Complete(r, ServerError("Server error adding exercise"),
                       IF fault THEN "thrown" ELSE "rejected", 0)
         ELSE IF findById(req[r].id) = NoUser
           THEN Complete(r, NotFound, "none", 0)
           ELSE /\ pc' = [pc EXCEPT ![r] = "exercise_save"]
                /\ user' = [user EXCEPT ![r] = findById(req[r].id)]
                /\ UNCHANGED <<req, alone, pred, last>>

\* The document `new Exercise({...})` builds at the instant `now`.
NewExercise(rq, now) ==
  [_id |-> nextEid,
   userId |-> rq.id,
   description |-> rq.description,
   duration |-> parseInt(rq.duration),
   date |-> IF Truthy(rq.date) THEN NewDate(rq.date) ELSE now]

\* The body of the response to an added exercise.
AddBody(u, exercise) ==
  [_id |-> u._id, username |-> u.username, description |-> exercise.description,
   duration |-> exercise.duration, date |-> toDateString(exercise.date)]

\* const exercise = new Exercise({...}); await exercise.save(); res.json({...})
ExerciseSave(r) ==
  /\ pc[r] = "exercise_save"
  /\ nextEid' = nextEid + 1
  /\ UNCHANGED <<Users, nextUid>>
  /\ \E now \in Ticks, fault \in BOOLEAN :
       LET exercise == NewExercise(req[r], now)
       IN IF ~ExerciseValid(exercise)
            THEN /\ ~fault
                 /\ Exercises' = Exercises
                 /\ Complete(r, ServerError("Server error adding exercise"), "rejected", 0)
            ELSE IF fault
              THEN /\ Exercises' \in {Exercises, Exercises \cup {exercise}}
                   /\ Complete(r, ServerError("Server error adding exercise"), "thrown", 0)
              ELSE /\ Exercises' = Exercises \cup {exercise}
                   /\ Complete(r, <<Json(200, AddBody(user[r], exercise))>>, "none",
                               exercise._id)

\* ------------------------------------------------------------------------
\* GET /api/users/:_id/logs

\* await User.findById(_id); if (!user) return res.status(404)...
LogsFindById(r) ==
  /\ pc[r] = "logs_findById"
  /\ UNCHANGED <<Users, Exercises, nextUid, nextEid>>
  /\ \E fault \in BOOLEAN :
       IF fault \/ ~CastsToObjectId(req[r].id)
         THEN Complete(r, ServerError("Server error retrieving exercise log"),
                       IF fault THEN "thrown" ELSE "rejected", 0)
         ELSE IF findById(req[r].id) = NoUser
           THEN Complete(r, NotFound, "none", 0)
           ELSE /\ pc' = [pc EXCEPT ![r] = "exercises_find"]
                /\ user' = [user EXCEPT ![r] = findById(req[r].id)]
                /\ UNCHANGED <<req, alone, pred, last>>

\* await Exercise.find(filter).limit(...).sort({ date: 1 }); res.json({ ..., count, log })
ExercisesFind(r) ==
  /\ pc[r] = "exercises_find"
  /\ UNCHANGED <<Users, Exercises, nextUid, nextEid>>
  /\ \E fault \in BOOLEAN :
       IF fault \/ ~FilterCasts(req[r].from, req[r].to)
         THEN Complete(r, ServerError("Server error retrieving exercise log"),
                       IF fault THEN "thrown" ELSE "rejected", 0)
         ELSE \E sorted \in SortByDate(Find(req[r].id, req[r].from, req[r].to)) :
                LET exercises == Limit(sorted, req[r].limit)
                IN Complete(r, <<Json(200, LogBody(user[r], LogOf(exercises)))>>, "none", 0)

\* ------------------------------------------------------------------------
\* GET /api/users/delete and GET /api/exercises/delete

\* Mutant of DeleteFailed: the catch block answers with status 500.
DeleteFailedAs500(msg) == <<Json(500, [message |-> msg])>>

\* catch (err) { res.json({ message }) }
DeleteFailed(msg) == <<Json(200, [message |-> msg])>>
\* res.json({ message, result })
Deleted(msg, n) == <<Json(200, [message |-> msg, result |-> [deletedCount |-> n]])>>

\* Mutant of UsersDeleteMany: deleting the users deletes their exercises too.
UsersDeleteCascade(r) ==
  /\ pc[r] = "users_deleteMany"
  /\ UNCHANGED <<nextUid, nextEid>>
  /\ Users' = {}
  /\ Exercises' = {}
  /\ Complete(r, <<Json(200, [message |-> "All users have been deleted!",
                              result |-> [deletedCount |-> Cardinality(Users)]])>>,
              "none", 0)

\* await User.deleteMany({}); res.json({ message, result })
UsersDeleteMany(r) ==
  /\ pc[r] = "users_deleteMany"
  /\ UNCHANGED <<Exercises, nextUid, nextEid>>
  /\ \E fault \in BOOLEAN :
       IF fault
         THEN /\ Users' \in {Users, {}}
              /\ Complete(r, DeleteFailed("Deleting all users failed!"), "thrown", 0)
         ELSE /\ Users' = {}
              /\ Complete(r, Deleted("All users have been deleted!", Cardinality(Users)),
                          "none", 0)

\* await Exercise.deleteMany({}); res.json({ message, result })
ExercisesDeleteMany(r) ==
  /\ pc[r] = "exercises_deleteMany"
  /\ UNCHANGED <<Users, nextUid, nextEid>>
  /\ \E fault \in BOOLEAN :
       IF fault
         THEN /\ Exercises' \in {Exercises, {}}
              /\ Complete(r, DeleteFailed("Deleting all exercises failed!"), "thrown", 0)
         ELSE /\ Exercises' = {}
              /\ Complete(r, Deleted("All exercises have been deleted!",
                                     Cardinality(Exercises)), "none", 0)

\* The exchange just completed is over: nothing of the program changes, the
\* record of the exchange is dropped.
Forget ==
  /\ last # NoLast
  /\ last' = NoLast
  /\ UNCHANGED <<Users, Exercises, nextUid, nextEid, pc, req, user, alone, pred>>

\* ------------------------------------------------------------------------
\* The server.

Init ==
  /\ Users = {}
  /\ Exercises = {}
  /\ nextUid = 1
  /\ nextEid = 1
  /\ pc = [r \in Reqs |-> "idle"]
  /\ req = [r \in Reqs |-> NoReq]
  /\ user = [r \in Reqs |-> NoUser]
  /\ alone = [r \in Reqs |-> FALSE]
  /\ pred = [r \in Reqs |-> NoPred]
  /\ last = NoLast

Step(r) ==
  \/ UsersFindOne(r)
  \/ UsersSave(r)
  \/ UsersFind(r)
  \/ AddFindById(r)
  \/ ExerciseSave(r)
  \/ LogsFindById(r)
  \/ ExercisesFind(r)
  \/ UsersDeleteMany(r)
  \/ ExercisesDeleteMany(r)

\* The requests of R that may arrive now: any of them once the last exchange
\* is over, and before that the ones that follow it.
Arriving(R) ==
  IF last = NoLast THEN R
  ELSE IF last.req.op = "register" THEN {q \in RegisterReqs \cap R : q.username = last.req.username}
  ELSE IF last.req.op = "add" THEN {q \in LogReqs \cap R : q.id = last.req.id}
  ELSE {}

\* Requests of every shape, served one at a time.
Requests == RegisterReqs \cup ListReqs \cup AddReqs \cup LogReqs \cup DeleteReqs

Quiet == \A r \in Reqs : ~InFlight(r)

NextSeq ==
  \/ \E r \in Reqs :
       \/ Quiet /\ \E rq \in Arriving(Requests) : Receive(r, rq)
       \/ Step(r)
  \/ Forget

SpecSeq == Init /\ [][NextSeq]_vars

\* Requests of every operation, interleaved: dated exercises, well-formed or
\* not, and logs without a range that casts or a limit.
Interleaved ==
  RegisterReqs \cup ListReqs \cup DeleteReqs
    \cup {q \in AddReqs : q.description = "run" /\ q.duration \in {"30", "abc"}
                          /\ q.date = "2024-01-02"}
    \cup {q \in LogReqs : q.from \in {"undefined", "garbage"} /\ q.to = "undefined"
                          /\ q.limit = "undefined"}

Next ==
  \/ \E r \in Reqs :
       \/ \E rq \in Arriving(Interleaved) : Receive(r, rq)
       \/ Step(r)
  \/ Forget

Spec == Init /\ [][Next]_vars

\* ------------------------------------------------------------------------
\* Properties.

Status(x) == x.resps[1].status
Body(x) == x.resps[1].body
Answered(x, op) == x.req.op = op /\ Len(x.resps) = 1
Named(username) == {u \in Users : u.username = username}

\* C1: two successive registrations of one username, with no other request
\* interleaved and no store fault, both succeed and return the same _id, and
\* exactly one User has that username after both.
C1_RegisterIdempotent ==
  (/\ last.req.op = "register" /\ last.req.username # ""
   /\ last.alone /\ last.error # "thrown"
   /\ last.pred.op = "register" /\ last.pred.username = last.req.username
   /\ last.pred.alone /\ last.pred.error # "thrown")
  => /\ Len(last.resps) = 1
     /\ Status(last) = 200
     /\ last.pred.status = 200
     /\ Body(last)._id = last.pred.ret
     /\ last.made = 0
     /\ Cardinality(Named(last.req.username)) = 1

\* The second of two successive registrations has answered; the first one
\* created the User.
C1_Witness ==
  /\ Answered(last, "register") /\ last.alone /\ Status(last) = 200
  /\ last.pred.op = "register" /\ last.pred.alone /\ last.pred.made # 0
  /\ Body(last)._id = last.pred.made

\* C2 as stated: the store does not enforce uniqueness, so a save whose
\* handler found no User of its username inserts one, whatever was inserted
\* meanwhile.
C2_BothInsert ==
  [][\A r \in Reqs :
       (/\ pc[r] = "users_save" /\ pc'[r] = "idle"
        /\ req[r].username # "" /\ last'.error # "thrown")
       => \E u \in Users' \ Users : u.username = req[r].username]_vars

\* C2 amended: two interleaved registrations may both find no User of the
\* username, but the unique index on username rejects the second insert: no
\* two Users ever share a username, and the rejected request ends in a 500.
C2_UniqueUsernames ==
  /\ \A u, v \in Users : u.username = v.username => u = v
  /\ (last.req.op = "register" /\ last.error = "rejected")
       => Len(last.resps) = 1 /\ Status(last) = 500 /\ last.made = 0

\* Two registrations of one username were interleaved, both found nothing,
\* and the save of the second was rejected while the first User is stored.
C2_Witness ==
  /\ Answered(last, "register") /\ ~last.alone
  /\ last.req.username # "" /\ last.error = "rejected"
  /\ Named(last.req.username) # {}

\* C3: an exercise is added for an existing user and the log of that user is
\* fetched next, with no from, to or limit (and no store fault): the log holds
\* the new entry exactly once.
C3_AddedThenLogged ==
  (/\ last.req.op = "logs" /\ last.alone /\ last.error # "thrown"
   /\ last.req.from = "undefined" /\ last.req.to = "undefined"
   /\ last.req.limit = "undefined"
   /\ last.pred.op = "add" /\ last.pred.id = last.req.id
   /\ last.pred.alone /\ last.pred.status = 200)
  => /\ Len(last.resps) = 1
     /\ Status(last) = 200
     /\ Cardinality({i \in 1..Len(Body(last).log) :
                       Body(last).log[i]._id = last.pred.made}) = 1

\* A log fetched right after an added exercise, holding an older entry too.
C3_Witness ==
  /\ Answered(last, "logs") /\ last.alone /\ Status(last) = 200
  /\ last.pred.op = "add" /\ last.pred.alone /\ last.pred.status = 200
  /\ Len(Body(last).log) = 2

\* The Exercises of the log's user within the inclusive range of the request:
\* from and to are absent when undefined or empty.
InRange(x) ==
  {e \in Exercises :
     /\ e.userId = x.req.id
     /\ (x.req.from \in {"undefined", ""} \/ e.date >= NewDate(x.req.from))
     /\ (x.req.to \in {"undefined", ""} \/ e.date <= NewDate(x.req.to))}

LogIds(x) == {Body(x).log[i]._id : i \in 1..Len(Body(x).log)}
Numeral(limit) == limit \in {"0", "1", "1.9", "2"}
Min(a, b) == IF a <= b THEN a ELSE b

\* C4 as stated: with a limit N supplied, the log holds at most N entries, and
\* they are the N earliest of the entries in range.
C4_LimitCaps ==
  (Answered(last, "logs") /\ Status(last) = 200 /\ Numeral(last.req.limit))
  => /\ Len(Body(last).log) = Min(parseInt(last.req.limit), Cardinality(InRange(last)))
     /\ \A e \in InRange(last), f \in InRange(last) :
          (e._id \in LogIds(last) /\ f._id \notin LogIds(last)) => e.date <= f.date

\* C5: the log holds entries of the requested user within the inclusive range
\* only, each once, and all of them unless a supplied limit cut the log.
C5_RangeFilter ==
  (Answered(last, "logs") /\ Status(last) = 200)
  => /\ LogIds(last) \subseteq {e._id : e \in InRange(last)}
     /\ Cardinality(LogIds(last)) = Len(Body(last).log)
     /\ \A e \in Exercises : e._id \in LogIds(last) => e.userId = last.req.id
     /\ (Len(Body(last).log) < Cardinality(InRange(last))
          => /\ Numeral(last.req.limit)
             /\ Len(Body(last).log) = parseInt(last.req.limit))

\* A log with both bounds supplied that leaves out an entry dated before from
\* and holds an entry dated exactly at from.
C5_Witness ==
  /\ Answered(last, "logs") /\ Status(last) = 200
  /\ last.req.from = "2024-01-02" /\ last.req.to = "2024-01-02"
  /\ \E e \in Exercises : e.userId = last.req.id /\ e.date < NewDate("2024-01-02")
                           /\ e._id \notin LogIds(last)
  /\ \E e \in Exercises : e.date = NewDate("2024-01-02") /\ e._id \in LogIds(last)

\* C6: count is the number of elements of log.
C6_CountIsLength ==
  (Answered(last, "logs") /\ Status(last) = 200)
  => Body(last).count = Len(Body(last).log)

\* A log shorter than the user's list of entries.
C6_Witness ==
  /\ Answered(last, "logs") /\ Status(last) = 200
  /\ Body(last).count = 1
  /\ Cardinality({e \in Exercises : e.userId = last.req.id}) = 2

\* C7 as stated: add exercise and get log answer 404 for every userId that
\* matches no User (given no store fault), and add exercise then makes no entry.
C7_NotFound ==
  (/\ last.req.op \in {"add", "logs"} /\ last.error # "thrown"
   /\ ~\E u \in Users : u._id = last.req.id)
  => /\ Len(last.resps) = 1
     /\ Status(last) = 404
     /\ Body(last) = [error |-> "User not found"]
     /\ last.made = 0

\* C8: a request whose store call failed has exactly one response: a 500 with
\* an error body from register, list, add and logs, a 200 with a failure
\* message and no result from the two bulk deletes.
C8_FailureResponse ==
  (last.req.op # "none" /\ last.error # "none")
  => /\ Len(last.resps) = 1
     /\ last.made = 0
     /\ last.req.op \in {"register", "list", "add", "logs"}
          => Status(last) = 500 /\ DOMAIN Body(last) = {"error"}
     /\ last.req.op \in {"deleteUsers", "deleteExercises"}
          => Status(last) = 200 /\ DOMAIN Body(last) = {"message"}
             /\ Body(last).message \in {"Deleting all users failed!",
                                        "Deleting all exercises failed!"}

\* A bulk delete whose store call failed has answered.
C8_Witness ==
  /\ Answered(last, "deleteUsers") /\ last.error = "thrown"
  /\ Users # {}

\* C9 as stated: the userId of an entry is the _id of a stored User at the
\* moment the entry is inserted.
C9_UserExistsAtInsert ==
  [][\A e \in Exercises' \ Exercises : \E u \in Users' : u._id = e.userId]_vars

\* r takes the step that leaves the await p.
Leaves(r, p) == pc[r] = p /\ pc'[r] # p

\* C10: stored documents are never modified and leave only by the bulk delete
\* of their collection; reads and a register of an existing username change
\* nothing, add exercise and delete exercises leave Users alone, delete users
\* leaves Exercises alone.
C10_Frame ==
  [][/\ \A u \in Users, v \in Users' : u._id = v._id => u = v
     /\ \A e \in Exercises, f \in Exercises' : e._id = f._id => e = f
     /\ Users \subseteq Users' \/ \E r \in Reqs : Leaves(r, "users_deleteMany")
     /\ Exercises \subseteq Exercises'
          \/ \E r \in Reqs : Leaves(r, "exercises_deleteMany")
     /\ \A r \in Reqs :
          /\ (Leaves(r, "users_find") \/ Leaves(r, "logs_findById")
               \/ Leaves(r, "exercises_find") \/ Leaves(r, "users_findOne"))
               => Users' = Users /\ Exercises' = Exercises
          /\ (Leaves(r, "add_findById") \/ Leaves(r, "exercise_save")
               \/ Leaves(r, "exercises_deleteMany"))
               => Users' = Users
          /\ (Leaves(r, "users_deleteMany") \/ Leaves(r, "users_save"))
               => Exercises' = Exercises]_vars

\* All users have been deleted and an exercise is still stored.
C10_Witness ==
  /\ Answered(last, "deleteUsers") /\ last.error = "none"
  /\ Body(last).result.deletedCount > 0
  /\ Users = {} /\ Exercises # {}

====
